---- MODULE Spec2Model ----
(***************************************************************************)
(* AllocineScraper (src/web_scraping/allocine_scraper_class.py): the       *)
(* paginated link-discovery crawl (collect_review_links) and the per-link  *)
(* review fetch and parse (scrape_reviews, to_dataframe,                   *)
(* export_to_parquet).                                                     *)
(*                                                                         *)
(* Texts are sequences of one-character strings, so that strip, lower,     *)
(* split, the substring test and int() are computed as Python computes     *)
(* them.  The only whitespace character of the alphabet is " ".            *)
(*                                                                         *)
(* Two specifications share the variables:                                 *)
(*   Spec        the object after construction, then collect_review_links  *)
(*   ScrapeSpec  an object whose link discovery is over (list_href is any  *)
(*               list of at most MaxLinks tagged links), then one          *)
(*               scrape_reviews call, with to_dataframe and                *)
(*               export_to_parquet before and after it                     *)
(***************************************************************************)
EXTENDS Integers, Sequences, FiniteSets, TLC

\* ------------------------------------------------------------------ bounds

\* pages visited per category (the field MAX_PAGES, 200 by default)
MAX_PAGES == 3
\* largest review cap passed to scrape_reviews (4000 by default)
MaxCap == 2
\* longest list_href the scrape stage starts from
MaxLinks == 3

\* ------------------------------------------------------------------- texts

Min(a, b) == IF a <= b THEN a ELSE b
Max(a, b) == IF a >= b THEN a ELSE b

IsSpace(c) == c = " "

RECURSIVE LStrip(_)
LStrip(s) ==
    IF s = <<>> THEN s
    ELSE IF IsSpace(Head(s)) THEN LStrip(Tail(s)) ELSE s

RECURSIVE RStrip(_)
RStrip(s) ==
    IF s = <<>> THEN s
    ELSE IF IsSpace(s[Len(s)]) THEN RStrip(SubSeq(s, 1, Len(s) - 1)) ELSE s

\* str.strip()
Strip(s) == RStrip(LStrip(s))

LowerChar(c) ==
    CASE c = "S" -> "s" [] c = "P" -> "p" [] c = "E" -> "e" [] c = "C" -> "c"
      [] c = "T" -> "t" [] c = "A" -> "a" [] c = "U" -> "u" [] c = "R" -> "r"
      [] OTHER -> c

\* str.lower()
Lower(s) == [k \in 1..Len(s) |-> LowerChar(s[k])]

\* m in s, for a non-empty m
Contains(s, m) ==
    \E k \in 1..(Len(s) - Len(m) + 1) : SubSeq(s, k, k + Len(m) - 1) = m

\* the index of the first sep in s, or 0
RECURSIVE FirstIndex(_, _, _)
FirstIndex(s, sep, k) ==
    IF k > Len(s) THEN 0
    ELSE IF s[k] = sep THEN k ELSE FirstIndex(s, sep, k + 1)

\* str.split(sep): consecutive separators give empty parts
RECURSIVE Split(_, _)
Split(s, sep) ==
    LET k == FirstIndex(s, sep, 1) IN
    IF k = 0 THEN <<s>>
    ELSE <<SubSeq(s, 1, k - 1)>> \o Split(SubSeq(s, k + 1, Len(s)), sep)

\* sep.join(parts)
RECURSIVE Join(_, _)
Join(parts, sep) ==
    IF parts = <<>> THEN <<>>
    ELSE IF Len(parts) = 1 THEN parts[1]
    ELSE parts[1] \o <<sep>> \o Join(Tail(parts), sep)

\* parts[n:]
DropFirst(parts, n) == SubSeq(parts, n + 1, Len(parts))

DigitValue(c) ==
    CASE c = "0" -> 0 [] c = "1" -> 1 [] c = "2" -> 2 [] c = "3" -> 3
      [] c = "4" -> 4 [] c = "5" -> 5 [] c = "6" -> 6 [] c = "7" -> 7
      [] c = "8" -> 8 [] c = "9" -> 9 [] OTHER -> -1

RECURSIVE DigitsValue(_, _)
DigitsValue(s, acc) ==
    IF s = <<>> THEN acc
    ELSE DigitsValue(Tail(s), 10 * acc + DigitValue(Head(s)))

AllDigits(s) == s # <<>> /\ \A k \in 1..Len(s) : DigitValue(s[k]) >= 0

\* the result of a conversion: a value, or ValueError raised
Value(v) == [raised |-> FALSE, value |-> v]
ValueError == [raised |-> TRUE, value |-> 0]

\* int(text): surrounding blanks, an optional sign, decimal digits;
\* anything else raises ValueError
PyInt(text) ==
    LET t == Strip(text) IN
    IF t # <<>> /\ Head(t) \in {"-", "+"}
    THEN IF AllDigits(Tail(t))
         THEN Value((IF Head(t) = "-" THEN -1 ELSE 1) * DigitsValue(Tail(t), 0))
         ELSE ValueError
    ELSE IF AllDigits(t) THEN Value(DigitsValue(t, 0)) ELSE ValueError

\* ------------------------------------------------------ configuration

\* type_dict, in insertion order
type_dict ==
    << [name |-> "Drame", id |-> "13008"],
       [name |-> "Comedie", id |-> "13005"] >>

TypeNames == {type_dict[k].name : k \in 1..Len(type_dict)}

Marker == <<"s", "p", "e", "c", "t", "a", "t", "e", "u", "r", "s">>

\* the visible texts of rating-title anchors
TxtSpect == <<" ", "S", "p", "e", "c", "t", "a", "t", "e", "u", "r", "s", " ">>
TxtSPECT == <<"S", "P", "E", "C", "T", "A", "T", "E", "U", "R", "S">>
TxtPresse == <<"P", "r", "e", "s", "s", "e">>

Anchor(h, t) == [href |-> h, text |-> t]

\* what find_elements(By.CSS_SELECTOR, "a.xXx.rating-title") can return for
\* a rendered listing page, in document order
ListingPages ==
    { <<>>,
      << Anchor("p1", TxtPresse), Anchor("f1", TxtSpect),
         Anchor("p2", TxtPresse), Anchor("f2", TxtSPECT),
         Anchor("p3", TxtPresse), Anchor("f3", TxtSpect) >>,
      << Anchor("g1", TxtSpect), Anchor("g2", TxtPresse),
         Anchor("g3", TxtPresse), Anchor("g4", TxtSPECT),
         Anchor("g5", TxtSpect) >> }

\* ------------------------------------------------------------ review pages

\* span.stareval-note texts
Score40 == <<"4", ",", "0">>
Score25 == <<" ", "2", ",", "5">>
ScoreBad == <<"-", ",", "5">>
\* div.review-card-content texts
Crit1 == <<" ", "o", "k", " ">>
Crit2 == <<"n", "u", "l">>
\* span.review-card-meta-date texts
Date1 == <<" ", "P", " ", "l", "e", " ", "4", " ", "m", "a", "i">>
Date2 == <<"P", " ", "l", "e", " ", "1", "2", " ", "m", "a", "i", " ">>

ReviewPage(s, c, d) == [score_tags |-> s, critics_tags |-> c, years_tags |-> d]

\* what BeautifulSoup finds on a fetched review page: the three node lists,
\* each in document order
ReviewPages ==
    { ReviewPage(<<>>, <<>>, <<>>),
      ReviewPage(<<Score40, Score25>>, <<Crit1, Crit2>>, <<Date1, Date2>>),
      ReviewPage(<<Score25, Score40, ScoreBad>>, <<Crit2>>, <<Date2, Date1>>),
      ReviewPage(<<Score40, ScoreBad>>, <<Crit1, Crit2>>, <<Date1, Date2>>) }

NoPage == ReviewPage(<<>>, <<>>, <<>>)


\* ------------------------------------------------------------------- state

VARIABLES
    \* the object's fields
    driver,        \* the browser session of __post_init__
    list_href,     \* <<link, type_name>> pairs
    list_score, list_critics, list_years, list_type,
    \* collect_review_links: its position and locals
    cpc, ci, nb_page, rating_tags, i,
    \* scrape_reviews: its position, argument and locals
    spc, max_reviews, si, soup, zi,
    \* the fetch in progress (driver.get or requests.get)
    inflight,
    \* what to_dataframe last returned, and the file export_to_parquet wrote
    table, file,
    \* history: every driver.get issued, with its result
    log,
    \* history: the number of driver.quit() calls
    quits,
    \* history: every requests.get issued, with its result
    fetched,
    \* history: for each appended row, the position of the link it came from
    row_src

vars == << driver, list_href, list_score, list_critics, list_years, list_type,
           cpc, ci, nb_page, rating_tags, i, spc, max_reviews, si, soup, zi,
           inflight, table, file, log, quits, fetched, row_src >>

collectVars == << cpc, ci, nb_page, rating_tags, i >>
scrapeVars == << spc, max_reviews, si, soup, zi >>
accumulators == << list_score, list_critics, list_years, list_type >>

NoFetch == [kind |-> "none", explicit_timeout |-> FALSE, timeout |-> 0]

\* requests.get(href_url, timeout=10)
REQUEST_TIMEOUT == 10
\* driver.implicitly_wait(5)
IMPLICIT_WAIT == 5

\* webdriver.Chrome(service=..., options=options): the only option is
\* --headless; no page-load timeout is ever set on the session
NewDriver ==
    [session |-> "live", page_load_timeout_set |-> FALSE,
     page_load_timeout |-> 0, implicit_wait |-> 0]

\* pd.DataFrame({...}) of four columns; pandas raises when the columns differ
\* in length
DataFrame(critics, scores, date, types_movie) ==
    IF Len(critics) = Len(scores) /\ Len(scores) = Len(date)
       /\ Len(date) = Len(types_movie)
    THEN [built |-> TRUE, critics |-> critics, scores |-> scores,
          date |-> date, types_movie |-> types_movie]
    ELSE [built |-> FALSE, critics |-> <<>>, scores |-> <<>>,
          date |-> <<>>, types_movie |-> <<>>]

NoTable ==
    [built |-> FALSE, critics |-> <<>>, scores |-> <<>>,
     date |-> <<>>, types_movie |-> <<>>]

\* the dataclass defaults and __post_init__
Init ==
    /\ driver = NewDriver
    /\ list_href = <<>>
    /\ list_score = <<>> /\ list_critics = <<>>
    /\ list_years = <<>> /\ list_type = <<>>
    /\ cpc = "idle" /\ ci = 1 /\ nb_page = 1 /\ rating_tags = <<>> /\ i = 0
    /\ spc = "idle" /\ max_reviews = 0 /\ si = 0 /\ soup = NoPage /\ zi = 0
    /\ inflight = NoFetch
    /\ table = NoTable /\ file = NoTable
    /\ log = <<>> /\ quits = 0 /\ fetched = <<>> /\ row_src = <<>>

\* ------------------------------------------------- collect_review_links

SetLast(h, field, v) == [h EXCEPT ![Len(h)][field] = v]

CollectCall ==
    /\ cpc = "idle" /\ spc = "idle"
    /\ cpc' = "loop" /\ ci' = 1 /\ nb_page' = 1
    /\ UNCHANGED << driver, list_href, accumulators, rating_tags, i,
                    scrapeVars, inflight, table, file, log, quits, fetched,
                    row_src >>

\* for nb_page in range(1, MAX_PAGES + 1): the range is exhausted
NextType ==
    /\ cpc = "loop" /\ ci <= Len(type_dict) /\ nb_page > MAX_PAGES
    /\ ci' = ci + 1 /\ nb_page' = 1
    /\ UNCHANGED << driver, list_href, accumulators, cpc, rating_tags, i,
                    scrapeVars, inflight, table, file, log, quits, fetched,
                    row_src >>

\* self.driver.get(url)
DriverGet ==
    /\ cpc = "loop" /\ ci <= Len(type_dict) /\ nb_page <= MAX_PAGES
    /\ inflight' = [kind |-> "listing",
                    explicit_timeout |-> driver.page_load_timeout_set,
                    timeout |-> driver.page_load_timeout]
    /\ log' = Append(log, [cat |-> ci, page |-> nb_page,
                           session |-> driver.session,
                           result |-> "pending", tags |-> <<>>])
    /\ cpc' = "get"
    /\ UNCHANGED << driver, list_href, accumulators, ci, nb_page, rating_tags,
                    i, scrapeVars, table, file, quits, fetched, row_src >>

RangeStartZero == 1 - 1

\* range(1, len(rating_tags), 2)
RangeStart == 1
RangeStep == 2

\* the page loads: implicitly_wait(5), find_elements
GetOk ==
    /\ cpc = "get"
    /\ \E page \in ListingPages :
         /\ rating_tags' = page
         /\ log' = SetLast(SetLast(log, "result", "ok"), "tags", page)
    /\ driver' = [driver EXCEPT !.implicit_wait = IMPLICIT_WAIT]
    /\ i' = RangeStart
    /\ inflight' = NoFetch
    /\ cpc' = "anchors"
    /\ UNCHANGED << list_href, accumulators, ci, nb_page, scrapeVars, table,
                    file, quits, fetched, row_src >>

AfterTimeoutBreak(p) == MAX_PAGES + 1

\* except TimeoutException: print(...); continue
AfterTimeout(p) == p + 1

\* the load raises TimeoutException
GetTimeout ==
    /\ cpc = "get"
    /\ log' = SetLast(log, "result", "timeout")
    /\ nb_page' = AfterTimeout(nb_page)
    /\ inflight' = NoFetch
    /\ cpc' = "loop"
    /\ UNCHANGED << driver, list_href, accumulators, ci, rating_tags, i,
                    scrapeVars, table, file, quits, fetched, row_src >>

\* the load raises another WebDriverException: no handler catches it, and
\* collect_review_links ends by raising
GetRaises ==
    /\ cpc = "get"
    /\ log' = SetLast(log, "result", "error")
    /\ inflight' = NoFetch
    /\ cpc' = "raised"
    /\ UNCHANGED << driver, list_href, accumulators, ci, nb_page, rating_tags,
                    i, scrapeVars, table, file, quits, fetched, row_src >>

\* "spectateurs" in rating_tags[i].text.strip().lower()
HasMarker(text) == Contains(Lower(Strip(text)), Marker)

\* if "spectateurs" not in text: continue
AnchorSkip ==
    /\ cpc = "anchors" /\ i < Len(rating_tags)
    /\ ~HasMarker(rating_tags[i + 1].text)
    /\ i' = i + RangeStep
    /\ UNCHANGED << driver, list_href, accumulators, cpc, ci, nb_page,
                    rating_tags, scrapeVars, inflight, table, file, log,
                    quits, fetched, row_src >>

\* self.list_href.append((link, type_name))
AnchorAppend ==
    /\ cpc = "anchors" /\ i < Len(rating_tags)
    /\ HasMarker(rating_tags[i + 1].text)
    /\ list_href' = Append(list_href,
                           <<rating_tags[i + 1].href, type_dict[ci].name>>)
    /\ i' = i + RangeStep
    /\ UNCHANGED << driver, accumulators, cpc, ci, nb_page, rating_tags,
                    scrapeVars, inflight, table, file, log, quits, fetched,
                    row_src >>

\* the anchor loop is exhausted: next page
AnchorsDone ==
    /\ cpc = "anchors" /\ i >= Len(rating_tags)
    /\ nb_page' = nb_page + 1
    /\ cpc' = "loop"
    /\ UNCHANGED << driver, list_href, accumulators, ci, rating_tags, i,
                    scrapeVars, inflight, table, file, log, quits, fetched,
                    row_src >>

\* .text or .get_attribute raises (a stale element): not a TimeoutException,
\* so collect_review_links ends by raising
LookupRaises ==
    /\ cpc = "anchors" /\ i < Len(rating_tags)
    /\ log' = SetLast(log, "result", "lookup_error")
    /\ cpc' = "raised"
    /\ UNCHANGED << driver, list_href, accumulators, ci, nb_page, rating_tags,
                    i, scrapeVars, inflight, table, file, quits, fetched,
                    row_src >>

\* both loops are exhausted
LoopsDone ==
    /\ cpc = "loop" /\ ci > Len(type_dict)
    /\ cpc' = "quit"
    /\ UNCHANGED << driver, list_href, accumulators, ci, nb_page, rating_tags,
                    i, scrapeVars, inflight, table, file, log, quits, fetched,
                    row_src >>

\* self.driver.quit()
DriverQuit ==
    /\ cpc = "quit"
    /\ driver' = [driver EXCEPT !.session = "quit"]
    /\ quits' = quits + 1
    /\ cpc' = "done"
    /\ UNCHANGED << list_href, accumulators, ci, nb_page, rating_tags, i,
                    scrapeVars, inflight, table, file, log, fetched, row_src >>

Next ==
    \/ CollectCall
    \/ NextType
    \/ DriverGet
    \/ GetOk
    \/ GetTimeout
    \/ GetRaises
    \/ AnchorSkip
    \/ AnchorAppend
    \/ AnchorsDone
    \/ LookupRaises
    \/ LoopsDone
    \/ DriverQuit

Spec == Init /\ [][Next]_vars


\* ----------------------------------------------------------- scrape_reviews

\* the link stored at position k (1-based) of a discovered list
LinkAt(k) == <<"m", k>>

\* the lists link discovery can leave behind: any number of links, each
\* tagged with a configured category
LinkLists ==
    UNION { [1..n -> {LinkAt(1)} \X TypeNames] : n \in 0..MaxLinks }

\* an object whose collect_review_links has returned
InitScrape ==
    /\ driver = [NewDriver EXCEPT !.session = "quit",
                                  !.implicit_wait = IMPLICIT_WAIT]
    /\ list_href \in { [k \in 1..Len(l) |-> <<LinkAt(k), l[k][2]>>] :
                         l \in LinkLists }
    /\ list_score = <<>> /\ list_critics = <<>>
    /\ list_years = <<>> /\ list_type = <<>>
    /\ cpc = "done" /\ ci = Len(type_dict) + 1 /\ nb_page = 1
    /\ rating_tags = <<>> /\ i = 0
    /\ spc = "idle" /\ max_reviews = 0 /\ si = 0 /\ soup = NoPage /\ zi = 0
    /\ inflight = NoFetch
    /\ table = NoTable /\ file = NoTable
    /\ log = <<>> /\ quits = 1 /\ fetched = <<>> /\ row_src = <<>>

Caps == 0..MaxCap

\* scrape_reviews(max_reviews): enumerate(self.list_href) starts at 0
ScrapeCall ==
    /\ spc = "idle" /\ cpc \in {"done", "raised"}
    /\ \E cap \in Caps : max_reviews' = cap
    /\ si' = 0
    /\ spc' = "for"
    /\ UNCHANGED << driver, list_href, accumulators, collectVars, soup, zi,
                    inflight, table, file, log, quits, fetched, row_src >>

CapReachedOffByOne(idx, cap) == idx > cap

\* if i >= max_reviews: break
CapReached(idx, cap) == idx >= cap

ForBreak ==
    /\ spc = "for" /\ si < Len(list_href) /\ CapReached(si, max_reviews)
    /\ spc' = "done"
    /\ UNCHANGED << driver, list_href, accumulators, collectVars, max_reviews,
                    si, soup, zi, inflight, table, file, log, quits, fetched,
                    row_src >>

\* enumerate(self.list_href) is exhausted
ForExhausted ==
    /\ spc = "for" /\ si >= Len(list_href)
    /\ spc' = "done"
    /\ UNCHANGED << driver, list_href, accumulators, collectVars, max_reviews,
                    si, soup, zi, inflight, table, file, log, quits, fetched,
                    row_src >>

\* r = requests.get(href_url, timeout=10)
RequestsGet ==
    /\ spc = "for" /\ si < Len(list_href) /\ ~CapReached(si, max_reviews)
    /\ inflight' = [kind |-> "review", explicit_timeout |-> TRUE,
                    timeout |-> REQUEST_TIMEOUT]
    /\ fetched' = Append(fetched, [pos |-> si, link |-> list_href[si + 1],
                                   outcome |-> "pending", page |-> NoPage])
    /\ spc' = "get"
    /\ UNCHANGED << driver, list_href, accumulators, collectVars, max_reviews,
                    si, soup, zi, table, file, log, quits, row_src >>

AfterExceptionAbort == "done"

\* except Exception as e: print(...); continue
AfterException == "for"

\* what requests.get can raise
FetchExceptions == {"ConnectionError", "Timeout"}

\* requests.get raises
FetchRaises ==
    /\ spc = "get"
    /\ \E e \in FetchExceptions : fetched' = SetLast(fetched, "outcome", e)
    /\ inflight' = NoFetch
    /\ spc' = AfterException
    /\ si' = si + 1
    /\ UNCHANGED << driver, list_href, accumulators, collectVars, max_reviews,
                    soup, zi, table, file, log, quits, row_src >>

\* if r.ok: is false
ResponseNotOk ==
    /\ spc = "get"
    /\ fetched' = SetLast(fetched, "outcome", "not_ok")
    /\ inflight' = NoFetch
    /\ spc' = "for"
    /\ si' = si + 1
    /\ UNCHANGED << driver, list_href, accumulators, collectVars, max_reviews,
                    soup, zi, table, file, log, quits, row_src >>

\* r.ok: the three find_all calls
ResponseOk ==
    /\ spc = "get"
    /\ \E page \in ReviewPages :
         /\ soup' = page
         /\ fetched' = SetLast(SetLast(fetched, "outcome", "ok"), "page", page)
    /\ zi' = 0
    /\ inflight' = NoFetch
    /\ spc' = "zip"
    /\ UNCHANGED << driver, list_href, accumulators, collectVars, max_reviews,
                    si, table, file, log, quits, row_src >>

ZipHasNextOffByOne(page, k) ==
    /\ k + 1 < Len(page.score_tags)
    /\ k + 1 < Len(page.critics_tags)
    /\ k + 1 < Len(page.years_tags)

\* zip(score_tags, critics_tags, years_tags) yields a k-th triple (k from 0)
ZipHasNext(page, k) ==
    /\ k < Len(page.score_tags)
    /\ k < Len(page.critics_tags)
    /\ k < Len(page.years_tags)

\* int(score.text.strip().split(",")[0].strip())
ScoreClean(text) == PyInt(Strip(Split(Strip(text), ",")[1]))

\* critic.text.strip()
CriticClean(text) == Strip(text)

\* ' '.join(year.text.strip().split(' ')[2:])
YearClean(text) == Join(DropFirst(Split(Strip(text), " "), 2), " ")

\* the four appends of one review
ZipRow ==
    /\ spc = "zip" /\ ZipHasNext(soup, zi)
    /\ ~ScoreClean(soup.score_tags[zi + 1]).raised
    /\ list_score' = Append(list_score,
                            ScoreClean(soup.score_tags[zi + 1]).value)
    /\ list_critics' = Append(list_critics,
                              CriticClean(soup.critics_tags[zi + 1]))
    /\ list_years' = Append(list_years, YearClean(soup.years_tags[zi + 1]))
    /\ list_type' = Append(list_type, list_href[si + 1][2])
    /\ row_src' = Append(row_src, si)
    /\ zi' = zi + 1
    /\ UNCHANGED << driver, list_href, collectVars, spc, max_reviews, si, soup,
                    inflight, table, file, log, quits, fetched >>

ZipRaisesAfterAppend ==
    /\ spc = "zip" /\ ZipHasNext(soup, zi)
    /\ ScoreClean(soup.score_tags[zi + 1]).raised
    /\ list_type' = Append(list_type, list_href[si + 1][2])
    /\ fetched' = SetLast(fetched, "outcome", "ValueError")
    /\ spc' = AfterException
    /\ si' = si + 1
    /\ UNCHANGED << driver, list_href, list_score, list_critics, list_years,
                    collectVars, max_reviews, soup, zi, inflight, table, file,
                    log, quits, row_src >>

\* int(...) raises ValueError before any of the four appends
ZipRaises ==
    /\ spc = "zip" /\ ZipHasNext(soup, zi)
    /\ ScoreClean(soup.score_tags[zi + 1]).raised
    /\ fetched' = SetLast(fetched, "outcome", "ValueError")
    /\ spc' = AfterException
    /\ si' = si + 1
    /\ UNCHANGED << driver, list_href, accumulators, collectVars, max_reviews,
                    soup, zi, inflight, table, file, log, quits, row_src >>

\* zip is exhausted: next link
ZipDone ==
    /\ spc = "zip" /\ ~ZipHasNext(soup, zi)
    /\ spc' = "for"
    /\ si' = si + 1
    /\ UNCHANGED << driver, list_href, accumulators, collectVars, max_reviews,
                    soup, zi, inflight, table, file, log, quits, fetched,
                    row_src >>

\* -------------------------------------------- to_dataframe, export_to_parquet

ToDataframe ==
    /\ spc \in {"idle", "done"} /\ cpc \in {"done", "raised"}
    /\ table' = DataFrame(list_critics, list_score, list_years, list_type)
    /\ UNCHANGED << driver, list_href, accumulators, collectVars, scrapeVars,
                    inflight, file, log, quits, fetched, row_src >>

ExportThenReset ==
    /\ spc \in {"idle", "done"} /\ cpc \in {"done", "raised"}
    /\ file' = DataFrame(list_critics, list_score, list_years, list_type)
    /\ list_critics' = <<>> /\ list_score' = <<>>
    /\ list_years' = <<>> /\ list_type' = <<>>
    /\ UNCHANGED << driver, list_href, collectVars, scrapeVars, inflight,
                    table, log, quits, fetched, row_src >>

\* df = self.to_dataframe(); df.to_parquet(filepath, index=False)
ExportToParquet ==
    /\ spc \in {"idle", "done"} /\ cpc \in {"done", "raised"}
    /\ file' = DataFrame(list_critics, list_score, list_years, list_type)
    /\ UNCHANGED << driver, list_href, accumulators, collectVars, scrapeVars,
                    inflight, table, log, quits, fetched, row_src >>

NextScrape ==
    \/ ScrapeCall
    \/ ForBreak
    \/ ForExhausted
    \/ RequestsGet
    \/ FetchRaises
    \/ ResponseNotOk
    \/ ResponseOk
    \/ ZipRow
    \/ ZipRaises
    \/ ZipDone
    \/ ToDataframe
    \/ ExportToParquet

ScrapeSpec == InitScrape /\ [][NextScrape]_vars


\* ------------------------------------------------------------------ claims

Min3(a, b, c) == Min(a, Min(b, c))

\* C1: between two review-append steps of scrape_reviews, and after it
\* returns, the four accumulators have the same length, which is the number
\* of reviews resolved so far: a review whose score cannot be resolved adds
\* an element to none of them.
C1_SameLength ==
    /\ Len(list_critics) = Len(list_score)
    /\ Len(list_score) = Len(list_years)
    /\ Len(list_years) = Len(list_type)
    /\ Len(list_type) = Len(row_src)

\* a review failed to parse after another one of the same page was appended
C1_Witness ==
    /\ spc = "done"
    /\ \E k \in 1..Len(fetched) :
         /\ fetched[k].outcome = "ValueError"
         /\ \E n \in 1..Len(row_src) : row_src[n] = fetched[k].pos

\* C2 as stated: the table returned by to_dataframe after
\* scrape_reviews(max_reviews) has at most max_reviews rows.
C2_RowsWithinCap ==
    (spc = "done" /\ table.built) => Len(table.critics) <= max_reviews

\* the largest number of reviews (zipped triples) on a page fetched so far
MaxPerPage ==
    LET sizes == { Min3(Len(fetched[k].page.score_tags),
                        Len(fetched[k].page.critics_tags),
                        Len(fetched[k].page.years_tags)) :
                     k \in 1..Len(fetched) } \cup {0}
    IN CHOOSE m \in sizes : \A x \in sizes : x <= m

\* C2 as amended: the table has at most max_reviews times the largest
\* number of reviews on a fetched page rows.
C2_RowsWithinCapTimesPerPage ==
    (spc = "done" /\ table.built)
        => Len(table.critics) <= max_reviews * MaxPerPage

\* a table with more rows than the cap
C2_Witness ==
    /\ spc = "done" /\ table.built
    /\ max_reviews > 0
    /\ Len(table.critics) > max_reviews

\* C3: one call scrape_reviews(cap) fetches exactly the links at positions
\* 0 .. min(cap, n)-1, in list order, each once, whether the fetch succeeds
\* or fails; no link at a position >= cap is fetched.
C3_FetchesPrefix ==
    /\ Len(fetched) <= Len(list_href)
    /\ \A k \in 1..Len(fetched) :
         /\ fetched[k].pos = k - 1
         /\ fetched[k].link = list_href[k]
         /\ fetched[k].pos < max_reviews
    /\ spc = "done" => Len(fetched) = Min(max_reviews, Len(list_href))

\* the cap cut the list short, and a failed link used one of its places
C3_Witness ==
    /\ spc = "done"
    /\ max_reviews >= 2
    /\ Len(list_href) > max_reviews
    /\ Len(fetched) = max_reviews
    /\ fetched[1].outcome \in FetchExceptions

\* every (category, page) pair, categories in configuration order, pages
\* ascending
AllPairs ==
    [k \in 1..(Len(type_dict) * MAX_PAGES) |->
        <<((k - 1) \div MAX_PAGES) + 1, ((k - 1) % MAX_PAGES) + 1>>]

\* C4: collect_review_links attempts every (category, page) pair once, in
\* order, whichever loads time out: the attempts so far are a prefix of
\* AllPairs, all of them are made before the loops end, and only a failure
\* other than a timeout ends them early.
C4_EveryPairAttempted ==
    /\ Len(log) <= Len(AllPairs)
    /\ \A k \in 1..Len(log) : <<log[k].cat, log[k].page>> = AllPairs[k]
    /\ cpc \in {"quit", "done"} =>
         /\ Len(log) = Len(AllPairs)
         /\ \A k \in 1..Len(log) : log[k].result \in {"ok", "timeout"}
    /\ cpc = "raised" => log[Len(log)].result \in {"error", "lookup_error"}

\* the first load timed out, the second gave no link, and every pair was
\* still attempted
C4_Witness ==
    /\ cpc = "done"
    /\ Len(log) = Len(AllPairs)
    /\ log[1].result = "timeout"
    /\ log[2].result = "ok" /\ log[2].tags = <<>>
    /\ log[Len(log)].result = "timeout"
    /\ list_href # <<>>

\* the rows appended so far, each with the position of its link
Rows ==
    [n \in 1..Len(row_src) |->
        [score |-> list_score[n], critic |-> list_critics[n],
         year |-> list_years[n], type |-> list_type[n], src |-> row_src[n]]]

RowsNotFrom(p) == SelectSeq(Rows, LAMBDA r : r.src # p)

\* the rows a page gives: the zipped triples up to the first score that does
\* not parse
RECURSIVE RefPageRows(_, _, _, _)
RefPageRows(page, k, type, src) ==
    IF k > Min3(Len(page.score_tags), Len(page.critics_tags),
                Len(page.years_tags))
    THEN <<>>
    ELSE LET sc == ScoreClean(page.score_tags[k]) IN
         IF sc.raised THEN <<>>
         ELSE << [score |-> sc.value,
                  critic |-> CriticClean(page.critics_tags[k]),
                  year |-> YearClean(page.years_tags[k]),
                  type |-> type, src |-> src] >>
              \o RefPageRows(page, k + 1, type, src)

\* the rows of a scrape over links whose fetch results are given, under a cap
RECURSIVE RefRun(_, _)
RefRun(descs, cap) ==
    IF descs = <<>> \/ cap <= 0 THEN <<>>
    ELSE LET d == Head(descs) IN
         (IF d.outcome \in {"ok", "ValueError"}
          THEN RefPageRows(d.page, 1, d.link[2], d.pos) ELSE <<>>)
         \o RefRun(Tail(descs), cap - 1)

Without(seq, j) == SubSeq(seq, 1, j - 1) \o SubSeq(seq, j + 1, Len(seq))

Failing(f) == f.outcome \in FetchExceptions \cup {"not_ok", "ValueError"}

\* what the fetch of a link not fetched in this run could give
FetchResults ==
    { [outcome |-> "ok", page |-> p] : p \in ReviewPages }
    \cup { [outcome |-> e, page |-> NoPage] :
             e \in FetchExceptions \cup {"not_ok"} }

\* how many links beyond the fetched ones a scrape of the list without one
\* of the fetched links fetches under cap
Reached(cap) ==
    Max(0, Min(cap, Len(list_href) - 1) - (Len(fetched) - 1))

\* fetched, followed by the next links of the list with fetch results r
WithUnfetched(r) ==
    fetched \o [k \in 1..Len(r) |->
                  [pos |-> Len(fetched) + k - 1,
                   link |-> list_href[Len(fetched) + k],
                   outcome |-> r[k].outcome, page |-> r[k].page]]

\* the rows of the scrape, under cap, of the list without its j-th link equal
\* the rows of this run that are not from that link, whatever the links this
\* run did not fetch give
AsIfAbsent(j, cap) ==
    \A r \in [1..Reached(cap) -> FetchResults] :
        RowsNotFrom(j - 1) = RefRun(Without(WithUnfetched(r), j), cap)

\* C5 as stated: a failing link never aborts the scrape, every later link
\* within the cap is fetched, and the rows of the other links are the rows
\* of a scrape, under the same cap, of the list without the failing link.
C5_AsIfAbsent ==
    spc = "done" =>
      /\ Len(fetched) = Min(max_reviews, Len(list_href))
      /\ \A j \in 1..Len(fetched) :
           Failing(fetched[j]) => AsIfAbsent(j, max_reviews)

\* C5 as amended: the rows of the other links are the rows of a scrape of
\* the list without the failing link under the cap less one (the failing
\* link has used one of the cap's places).
C5_AsIfAbsentCapLessOne ==
    spc = "done" =>
      /\ Len(fetched) = Min(max_reviews, Len(list_href))
      /\ \A j \in 1..Len(fetched) :
           Failing(fetched[j]) => AsIfAbsent(j, max_reviews - 1)

\* the first link failed and the second one still gave rows
C5_Witness ==
    /\ spc = "done"
    /\ Len(fetched) >= 2
    /\ fetched[1].outcome \in FetchExceptions \cup {"not_ok"}
    /\ fetched[2].outcome = "ok"
    /\ \E n \in 1..Len(row_src) : row_src[n] = 1

\* C6: the session acquired at construction is released exactly once on
\* every exit path of collect_review_links, never before the last page, and
\* no page load is issued after the release.
C6_ReleasedOnEveryExit ==
    /\ cpc \in {"done", "raised"} => (quits = 1 /\ driver.session = "quit")
    /\ cpc \notin {"done", "raised"} => (quits = 0 /\ driver.session = "live")
    /\ \A k \in 1..Len(log) : log[k].session = "live"

\* C7: every fetch in progress was issued with an explicit timeout.
C7_EveryFetchHasExplicitTimeout ==
    inflight.kind # "none" => inflight.explicit_timeout

\* the anchor texts that contain the viewer-reviews marker
MarkedTexts == {TxtSpect, TxtSPECT}

RECURSIVE Ascending(_)
Ascending(S) ==
    IF S = {} THEN <<>>
    ELSE LET m == CHOOSE x \in S : \A y \in S : x <= y
         IN <<m>> \o Ascending(S \ {m})

\* the links of one page: the odd-indexed anchors with the marker, in
\* document order, tagged with the category
ExpectedLinks(tags, type) ==
    LET idx == Ascending({ k \in 0..(Len(tags) - 1) :
                             k % 2 = 1 /\ tags[k + 1].text \in MarkedTexts })
    IN [n \in 1..Len(idx) |-> <<tags[idx[n] + 1].href, type>>]

RECURSIVE ExpectedAll(_)
ExpectedAll(h) ==
    IF h = <<>> THEN <<>>
    ELSE (IF Head(h).result = "ok"
          THEN ExpectedLinks(Head(h).tags, type_dict[Head(h).cat].name)
          ELSE <<>>)
         \o ExpectedAll(Tail(h))

\* C8: whenever no page is being processed, list_href is, page after page in
\* the order of the loads, the (href, category) pairs of the odd-indexed
\* anchors with the marker, in document order, and nothing else; every
\* element carries a configured category.
C8_LinksAreOddMarkedAnchors ==
    /\ cpc \in {"loop", "get", "quit", "done"} => list_href = ExpectedAll(log)
    /\ \A k \in 1..Len(list_href) : list_href[k][2] \in TypeNames

\* one page of 6 alternating anchors gave exactly 3 links
C8_Witness ==
    /\ cpc = "done"
    /\ Len(list_href) = 3
    /\ \E k \in 1..Len(log) :
         /\ log[k].result = "ok" /\ Len(log[k].tags) = 6
         /\ \A n \in 1..Len(log) : n # k => log[n].tags = <<>>
         /\ list_href = << <<"f1", type_dict[log[k].cat].name>>,
                           <<"f2", type_dict[log[k].cat].name>>,
                           <<"f3", type_dict[log[k].cat].name>> >>

\* the values the node texts stand for
ExpectedScore(text) == CASE text = Score40 -> 4 [] text = Score25 -> 2
ExpectedCritic(text) ==
    CASE text = Crit1 -> <<"o", "k">> [] text = Crit2 -> <<"n", "u", "l">>
ExpectedYear(text) ==
    CASE text = Date1 -> <<"4", " ", "m", "a", "i">>
      [] text = Date2 -> <<"1", "2", " ", "m", "a", "i">>

\* the indices of the rows appended for the link at position p, ascending
RowsOf(p) == Ascending({ n \in 1..Len(row_src) : row_src[n] = p })

\* C9: a page that was fetched and parsed without an error, with s score, c
\* critique and d date nodes, has appended exactly min(s, c, d) rows, the
\* i-th of them pairing the i-th score, critique and date with the category
\* of the link.
C9_RowsAreZippedPrefix ==
    \A k \in 1..Len(fetched) :
      (fetched[k].outcome = "ok" /\ (k < Len(fetched) \/ spc # "zip")) =>
        LET page == fetched[k].page
            rows == RowsOf(fetched[k].pos)
        IN /\ Len(rows) = Min3(Len(page.score_tags), Len(page.critics_tags),
                               Len(page.years_tags))
           /\ \A n \in 1..Len(rows) :
                /\ list_score[rows[n]] = ExpectedScore(page.score_tags[n])
                /\ list_critics[rows[n]]
                     = ExpectedCritic(page.critics_tags[n])
                /\ list_years[rows[n]] = ExpectedYear(page.years_tags[n])
                /\ list_type[rows[n]] = fetched[k].link[2]

\* a page with 3 score, 1 critique and 2 date nodes gave one row, and a page
\* with two reviews gave two
C9_Witness ==
    /\ spc = "done"
    /\ Len(fetched) = 2
    /\ fetched[1].outcome = "ok" /\ fetched[2].outcome = "ok"
    /\ Len(fetched[1].page.score_tags) = 3
    /\ Len(fetched[2].page.score_tags) = 2
    /\ Len(list_score) = 3
    /\ list_score = <<2, 4, 2>>

IsPrefix(a, b) == Len(a) <= Len(b) /\ SubSeq(b, 1, Len(a)) = a

\* C10: once link discovery has finished, no operation changes list_href or
\* the session; a step of scrape_reviews only appends to the four
\* accumulators and leaves the returned table and the written file alone; a
\* to_dataframe or export_to_parquet step leaves the accumulators unchanged.
C10_FrameEffects ==
    [][ /\ list_href' = list_href
        /\ driver' = driver
        /\ <<spc, si, zi>>' = <<spc, si, zi>> =>
             /\ list_score' = list_score /\ list_critics' = list_critics
             /\ list_years' = list_years /\ list_type' = list_type
        /\ <<spc, si, zi>>' # <<spc, si, zi>> =>
             /\ table' = table /\ file' = file
             /\ IsPrefix(list_score, list_score')
             /\ IsPrefix(list_critics, list_critics')
             /\ IsPrefix(list_years, list_years')
             /\ IsPrefix(list_type, list_type') ]_vars

\* rows were scraped, returned as a table and written to the file
C10_Witness ==
    /\ spc = "done"
    /\ list_href # <<>>
    /\ table.built /\ file.built
    /\ Len(table.critics) > 0 /\ file = table
    /\ Len(list_score) = Len(file.scores)

====
